---------------------------- MODULE Spec2Model ----------------------------
(***************************************************************************)
(* BypassNode (src/src/BypassNode.js): a composite audio node made of      *)
(* three gain stages that routes its input either straight to its output   *)
(* (bypass path) or through a caller-owned sub graph.                      *)
(*                                                                         *)
(* Values of the host language are modelled by tags (strings): "true",     *)
(* "false", "0", "1", "null", ...  Gains and samples are fixed-point       *)
(* numbers, Scale standing for 1.0.  The clock counts ticks; one tick is   *)
(* the half-life of a setTargetAtTime ramp whose time constant is 0.01 s   *)
(* (0.01 * ln 2 seconds), so that exp(-(t - T0) / 0.01) is 2^-(ticks).     *)
(***************************************************************************)
EXTENDS Integers, Sequences, FiniteSets, TLC

VARIABLES
    phase,          \* "new" (no instance yet), "failed" (constructor threw), "ok"
    context,        \* #context
    active,         \* #active
    bypass,         \* #bypass
    subGraphIn,     \* #subGraphIn
    output,         \* #output
    nodes,          \* audio nodes that exist
    conns,          \* connections <<from, to>> of the audio graph
    gain,           \* gain AudioParam of every existing gain node
    currentTime,    \* context.currentTime: index of the next frame to render
    samples,        \* samples rendered so far at the output stage
    lastOp,         \* the last operation, its arguments and its outcome
    requests,       \* scheduling requests issued by the last operation
    nAssign         \* number of assignments to active made so far

vars == <<phase, context, active, bypass, subGraphIn, output, nodes, conns,
          gain, currentTime, samples, lastOp, requests, nAssign>>

----------------------------------------------------------------------------
(* Bounds of the model *)

\* Gain resolution: Scale = 2^ScaleBits stands for 1.0
ScaleBits == 3
\* Frames rendered freely; rendering goes on past it only to let a ramp settle
MaxTime == 3
\* Assignments to active in one run
MaxAssign == 2

Scale == 2 ^ ScaleBits

\* timeConstant of both ramps, in milliseconds (0.01 s)
TimeConstantMs == 10

----------------------------------------------------------------------------
(* Values of the host language *)

\* Values a caller may hand over as the active option or assign to active
ActiveValues == {"undefined", "true", "false", "0", "1", "'string'"}

\* First constructor arguments: a context, or one of the rejected values
ContextArgs == {"ctx", "{}", "null", "'string'", "1", "NaN"}

\* Second constructor arguments: absent, a non-record value, or a plain
\* record with or without an active entry
OptionArgs ==
    {[kind |-> k, active |-> "undefined"] :
        k \in {"undefined", "null", "string", "number", "NaN", "array"}}
    \cup {[kind |-> "object", active |-> a] : a \in ActiveValues}

\* !!v
Truthy(v) == v \in {"true", "1", "'string'"}

ToBoolean(v) == IF Truthy(v) THEN "true" ELSE "false"

\* context instanceof BaseAudioContext
IsBaseAudioContext(v) == v = "ctx"

\* Variant of isPlainObject that takes any object, arrays included (typeof)
IsPlainObjectLoose(o) == o.kind \in {"object", "array"}

\* isPlainObject(arguments[1])
isPlainObject(o) == o.kind = "object"

\* BypassNode.parameters.active.default
DefaultActive == "false"

----------------------------------------------------------------------------
(* The host's gain stage and its parameter automation *)

\* Division rounding toward zero
Trunc(a, b) == IF a >= 0 THEN a \div b ELSE -((-a) \div b)

\* Fixed-point product
Mul(a, b) == (a * b) \div Scale

\* A gain parameter without automation: it holds value v
NewParam(v) == [base |-> v, start |-> 0, target |-> v, tc |-> 0]

\* Value of parameter p at time t: v(t) = V1 + (V0 - V1) * exp(-(t - T0) / tc)
ValueAt(p, t) ==
    IF p.tc = 0 \/ t <= p.start
    THEN p.base
    ELSE p.target
         + Trunc(p.base - p.target, 2 ^ (((t - p.start) * TimeConstantMs) \div p.tc))

\* Variant of SetTargetAtTime that restarts from the value the previous ramp
\* started from instead of the value reached
SetTargetAtTimeJump(p, target, startTime, tc) ==
    [base |-> p.base, start |-> startTime, target |-> target, tc |-> tc]

\* param.setTargetAtTime(target, startTime, timeConstant): the ramp starts
\* from the value the parameter has at startTime
SetTargetAtTime(p, target, startTime, tc) ==
    [base |-> ValueAt(p, startTime), start |-> startTime, target |-> target, tc |-> tc]


\* The gain parameters g extended with parameter p for the new gain node n
WithParam(g, n, p) == [m \in DOMAIN g \cup {n} |-> IF m = n THEN p ELSE g[m]]

\* ConstantSourceNode with offset 1: the node "src" emits 1.0
SourceOffset == Scale

RECURSIVE Signal(_, _, _, _), SumSignals(_, _, _, _)

\* Sum of the signals of the nodes S at frame t
SumSignals(S, g, c, t) ==
    IF S = {}
    THEN 0
    ELSE LET n == CHOOSE m \in S : TRUE
         IN  Signal(n, g, c, t) + SumSignals(S \ {n}, g, c, t)

\* Signal a node emits at frame t: a gain node multiplies the sum of its
\* inputs by the value its gain has at t
Signal(n, g, c, t) ==
    IF n = "src"
    THEN SourceOffset
    ELSE LET in == SumSignals({m \in DOMAIN g \cup {"src"} : <<m, n>> \in c}, g, c, t)
         IN  IF n \in DOMAIN g THEN Mul(in, ValueAt(g[n], t)) ELSE in

----------------------------------------------------------------------------
(* BypassNode *)

Uninit == "uninit"

\* Field initialisers, run when super() returns
FieldDefaults == [context |-> "true", active |-> "true", bypass |-> "null",
                  subGraphIn |-> "null", output |-> "null"]

\* Destructuring of the second parameter: { active = default } = {}
BoundActive(optArg) ==
    IF optArg.kind = "undefined" \/ optArg.active = "undefined"
    THEN DefaultActive
    ELSE optArg.active

\* What the constructor throws for these arguments, "none" if nothing
ConstructorError(ctxArg, optArg) ==
    IF optArg.kind = "null"
    THEN "TypeError: cannot destructure"
    ELSE IF ~IsBaseAudioContext(ctxArg)
    THEN "TypeError: GainNode"
    ELSE IF ~IsBaseAudioContext(ctxArg)
    THEN "Error: argument 1 is not an instance of BaseAudioContext"
    ELSE IF optArg.kind # "undefined" /\ ~isPlainObject(optArg)
    THEN "Error: argument 2 is not an object"
    ELSE "none"

\* Whether super(context) has returned when the constructor ends
SuperReturned(ctxArg, optArg) ==
    optArg.kind # "null" /\ IsBaseAudioContext(ctxArg)

\* Variant of InitialSubGraphInGain with the condition not inverted
InitialSubGraphInGainSame(a) == IF Truthy(a) THEN Scale ELSE 0

\* gain: this.#active ? 1 : 0
InitialBypassGain(a) == IF Truthy(a) THEN Scale ELSE 0

\* gain: this.#active ? 0 : 1
InitialSubGraphInGain(a) == IF Truthy(a) THEN 0 ELSE Scale

\* Variant of InternalWiring that also connects #subGraphIn to #output
InternalWiringAuto ==
    {<<"input", "bypass">>, <<"input", "subGraphIn">>, <<"bypass", "output">>,
     <<"subGraphIn", "output">>}

\* super.connect(#bypass); super.connect(#subGraphIn); #bypass.connect(#output)
InternalWiring ==
    {<<"input", "bypass">>, <<"input", "subGraphIn">>, <<"bypass", "output">>}

\* Value of the gain of node n at the current time
GainValue(n) == ValueAt(gain[n], currentTime)

\* Both switched gains have reached their targets
Settled ==
    /\ phase = "ok"
    /\ GainValue(bypass) = gain[bypass].target
    /\ GainValue(subGraphIn) = gain[subGraphIn].target

\* Record of an operation: its name, arguments and error, and the state it
\* was called in
Op(name, args, err) ==
    [name |-> name, args |-> args, error |-> err,
     preActive |-> active, preSettled |-> Settled, preTime |-> currentTime]

Init ==
    /\ phase = "new"
    /\ context = Uninit
    /\ active = Uninit
    /\ bypass = Uninit
    /\ subGraphIn = Uninit
    /\ output = Uninit
    /\ nodes = {}
    /\ conns = {}
    /\ gain = [n \in {} |-> NewParam(0)]
    /\ currentTime = 0
    /\ samples = << >>
    /\ lastOp = Op("none", << >>, "none")
    /\ requests = << >>
    /\ nAssign = 0

\* new BypassNode(ctxArg, optArg)
Constructor(ctxArg, optArg) ==
    LET err == ConstructorError(ctxArg, optArg)
        a   == ToBoolean(BoundActive(optArg))
    IN
    /\ phase \in {"new", "failed"}
    /\ lastOp' = Op("constructor", <<ctxArg, optArg>>, err)
    /\ requests' = << >>
    /\ UNCHANGED <<currentTime, samples, nAssign>>
    /\ IF err # "none"
       THEN /\ phase' = "failed"
            /\ IF SuperReturned(ctxArg, optArg)
               THEN /\ nodes' = {"input"}
                    /\ gain' = [n \in {"input"} |-> NewParam(Scale)]
                    /\ context' = FieldDefaults.context
                    /\ active' = FieldDefaults.active
                    /\ bypass' = FieldDefaults.bypass
                    /\ subGraphIn' = FieldDefaults.subGraphIn
                    /\ output' = FieldDefaults.output
               ELSE /\ nodes' = {}
                    /\ gain' = [n \in {} |-> NewParam(0)]
                    /\ context' = Uninit
                    /\ active' = Uninit
                    /\ bypass' = Uninit
                    /\ subGraphIn' = Uninit
                    /\ output' = Uninit
            /\ conns' = {}
       ELSE /\ phase' = "ok"
            /\ context' = ctxArg
            /\ active' = a
            /\ bypass' = "bypass"
            /\ subGraphIn' = "subGraphIn"
            /\ output' = "output"
            /\ nodes' = {"input", "bypass", "subGraphIn", "output"}
            /\ gain' = [n \in {"input", "bypass", "subGraphIn", "output"} |->
                          IF n = "bypass" THEN NewParam(InitialBypassGain(a))
                          ELSE IF n = "subGraphIn" THEN NewParam(InitialSubGraphInGain(a))
                          ELSE NewParam(Scale)]
            /\ conns' = InternalWiring

\* get context
GetContext == context

\* get subGraphInput
GetSubGraphInput == subGraphIn

\* get subGraphOutput
GetSubGraphOutput == output

\* get active
GetActive == active

\* Variant of SetActiveRequests whose second ramp starts one frame later
SetActiveRequestsSkewed(value, now) ==
    << [param |-> "bypass", target |-> IF Truthy(value) THEN Scale ELSE 0,
        startTime |-> now, timeConstant |-> TimeConstantMs],
       [param |-> "subGraphIn", target |-> IF Truthy(value) THEN 0 ELSE Scale,
        startTime |-> now + 1, timeConstant |-> TimeConstantMs] >>

\* Variant of SetActiveRequests with the same target for both gains
SetActiveRequestsSameTarget(value, now) ==
    << [param |-> "bypass", target |-> IF Truthy(value) THEN Scale ELSE 0,
        startTime |-> now, timeConstant |-> TimeConstantMs],
       [param |-> "subGraphIn", target |-> IF Truthy(value) THEN Scale ELSE 0,
        startTime |-> now, timeConstant |-> TimeConstantMs] >>

\* Variant of SetActiveRequests with the two targets exchanged
SetActiveRequestsSwapped(value, now) ==
    << [param |-> "bypass", target |-> IF Truthy(value) THEN 0 ELSE Scale,
        startTime |-> now, timeConstant |-> TimeConstantMs],
       [param |-> "subGraphIn", target |-> IF Truthy(value) THEN Scale ELSE 0,
        startTime |-> now, timeConstant |-> TimeConstantMs] >>

\* The two setTargetAtTime calls of the setter, in the order it issues them
SetActiveRequests(value, now) ==
    << [param |-> "bypass", target |-> IF Truthy(value) THEN Scale ELSE 0,
        startTime |-> now, timeConstant |-> TimeConstantMs],
       [param |-> "subGraphIn", target |-> IF Truthy(value) THEN 0 ELSE Scale,
        startTime |-> now, timeConstant |-> TimeConstantMs] >>

RECURSIVE Schedule(_, _)

\* The gain parameters g after the host has taken the requests rs, in order
Schedule(g, rs) ==
    IF rs = << >>
    THEN g
    ELSE LET r == Head(rs)
         IN  Schedule([g EXCEPT ![r.param] =
                           SetTargetAtTime(@, r.target, r.startTime, r.timeConstant)],
                      Tail(rs))

\* this.#active = value
StoredActive(value) == value

\* set active(value)
SetActive(value) ==
    /\ phase = "ok"
    /\ nAssign < MaxAssign
    /\ active' = StoredActive(value)
    /\ requests' = SetActiveRequests(active', currentTime)
    /\ gain' = Schedule(gain, requests')
    /\ nAssign' = nAssign + 1
    /\ lastOp' = Op("setActive", <<value>>, "none")
    /\ UNCHANGED <<phase, context, bypass, subGraphIn, output, nodes, conns,
                   currentTime, samples>>

\* Nodes the output may be connected to: the context's destination, and a
\* node of another context, which the host refuses
Destinations == {"destination", "foreign"}

\* connect(dest): this.#output.connect(dest)
Connect(dest) ==
    /\ phase = "ok"
    /\ requests' = << >>
    /\ IF dest = "foreign"
       THEN /\ lastOp' = Op("connect", <<dest>>, "InvalidAccessError")
            /\ conns' = conns
       ELSE /\ lastOp' = Op("connect", <<dest>>, "none")
            /\ conns' = conns \cup {<<output, dest>>}
    /\ UNCHANGED <<phase, context, active, bypass, subGraphIn, output, nodes,
                   gain, currentTime, samples, nAssign>>

\* Variant of Disconnected that also drops the connections into out
DisconnectedBothWays(c, out, arg) ==
    IF arg = "all"
    THEN {e \in c : e[1] # out /\ e[2] # out}
    ELSE c \ {<<out, arg>>}

\* The connections c after out.disconnect() or out.disconnect(arg)
Disconnected(c, out, arg) ==
    IF arg = "all"
    THEN {e \in c : e[1] # out}
    ELSE c \ {<<out, arg>>}

\* disconnect(...args): this.#output.disconnect(...args)
Disconnect(arg) ==
    /\ phase = "ok"
    /\ requests' = << >>
    /\ IF arg # "all" /\ <<output, arg>> \notin conns
       THEN /\ lastOp' = Op("disconnect", <<arg>>, "InvalidAccessError")
            /\ conns' = conns
       ELSE /\ lastOp' = Op("disconnect", <<arg>>, "none")
            /\ conns' = Disconnected(conns, output, arg)
    /\ UNCHANGED <<phase, context, active, bypass, subGraphIn, output, nodes,
                   gain, currentTime, samples, nAssign>>

----------------------------------------------------------------------------
(* The caller's harness: a constant source of value 1 feeding the node, and *)
(* a sub graph of gain 0.5 spliced between the two ports, both put in place *)
(* before rendering starts.                                                 *)

\* gain of the spliced sub graph: 0.5
SubGraphGain == Scale \div 2

\* src.connect(bypass)
ConnectSource ==
    /\ phase = "ok"
    /\ currentTime = 0
    /\ "src" \notin nodes
    /\ nodes' = nodes \cup {"src"}
    /\ conns' = conns \cup {<<"src", "input">>}
    /\ lastOp' = Op("connectSource", << >>, "none")
    /\ requests' = << >>
    /\ UNCHANGED <<phase, context, active, bypass, subGraphIn, output, gain,
                   currentTime, samples, nAssign>>

\* bypass.subGraphInput.connect(subGraph).connect(bypass.subGraphOutput)
SpliceSubGraph ==
    /\ phase = "ok"
    /\ currentTime = 0
    /\ "subGraph" \notin nodes
    /\ nodes' = nodes \cup {"subGraph"}
    /\ gain' = WithParam(gain, "subGraph", NewParam(SubGraphGain))
    /\ conns' = conns \cup {<<GetSubGraphInput, "subGraph">>,
                            <<"subGraph", GetSubGraphOutput>>}
    /\ lastOp' = Op("spliceSubGraph", << >>, "none")
    /\ requests' = << >>
    /\ UNCHANGED <<phase, context, active, bypass, subGraphIn, output,
                   currentTime, samples, nAssign>>

\* Sample at the output stage at frame t, for gain parameters g and graph c
OutSample(g, c, t) == Signal("output", g, c, t)

\* The host renders one frame and its clock advances
Render ==
    /\ phase = "ok"
    /\ currentTime < MaxTime \/ ~Settled
    /\ samples' = Append(samples, OutSample(gain, conns, currentTime))
    /\ currentTime' = currentTime + 1
    /\ lastOp' = Op("render", << >>, "none")
    /\ requests' = << >>
    /\ UNCHANGED <<phase, context, active, bypass, subGraphIn, output, nodes,
                   conns, gain, nAssign>>

Next ==
    \/ \E ctxArg \in ContextArgs, optArg \in OptionArgs : Constructor(ctxArg, optArg)
    \/ \E value \in ActiveValues : SetActive(value)
    \/ \E dest \in Destinations : Connect(dest)
    \/ \E arg \in Destinations \cup {"all"} : Disconnect(arg)
    \/ ConnectSource
    \/ SpliceSubGraph
    \/ Render

Spec == Init /\ [][Next]_vars

\* The operations that act on the gains and on the clock: construction,
\* assignments to active, rendering
LiveNext ==
    \/ \E ctxArg \in ContextArgs, optArg \in OptionArgs : Constructor(ctxArg, optArg)
    \/ \E value \in ActiveValues : SetActive(value)
    \/ Render

\* The host's rendering thread keeps running: a frame that can be rendered
\* is rendered
LiveSpec == Init /\ [][LiveNext]_vars /\ WF_vars(Render)

----------------------------------------------------------------------------
(* Properties *)

One == Scale
Half == Scale \div 2

\* The three gain stages of the component
Stages == {"bypass", "subGraphIn", "output"}

\* The harness is in place: source connected, sub graph spliced
Wired ==
    /\ phase = "ok"
    /\ <<"src", "input">> \in conns
    /\ <<subGraphIn, "subGraph">> \in conns
    /\ <<"subGraph", output>> \in conns

\* C1: construction succeeds exactly when argument 1 is a context and
\* argument 2 is absent or a plain record; otherwise it fails with an error
\* and none of the three gain stages exists or is connected.
C1_ConstructionValidation ==
    lastOp.name = "constructor" =>
        LET ctxArg == lastOp.args[1]
            optArg == lastOp.args[2]
        IN  /\ phase \in {"ok", "failed"}
            /\ (phase = "ok") <=> (ctxArg = "ctx" /\ optArg.kind \in {"undefined", "object"})
            /\ (phase = "ok") <=> (lastOp.error = "none")
            /\ phase = "failed" =>
                   /\ nodes \cap Stages = {}
                   /\ {bypass, subGraphIn, output} \cap nodes = {}
                   /\ conns = {}

C1_Witness ==
    /\ lastOp.name = "constructor"
    /\ phase = "failed"
    /\ lastOp.args[1] = "ctx"
    /\ lastOp.args[2].kind = "string"
    /\ nodes = {"input"}

\* C2: right after a successful construction, active is the truthiness of
\* the active option, the bypass gain is 1 if active else 0, the
\* sub-graph-input gain is 0 if active else 1, the output gain is 1, and the
\* wiring is input -> bypass, input -> subGraphIn, bypass -> output only.
C2_InitialState ==
    (lastOp.name = "constructor" /\ phase = "ok") =>
        LET opt == lastOp.args[2].active
        IN  /\ active = (IF opt \in {"true", "1", "'string'"} THEN "true" ELSE "false")
            /\ GainValue(bypass) = (IF active = "true" THEN One ELSE 0)
            /\ GainValue(subGraphIn) = (IF active = "true" THEN 0 ELSE One)
            /\ GainValue(output) = One
            /\ conns = {<<"input", bypass>>, <<"input", subGraphIn>>, <<bypass, output>>}
            /\ <<subGraphIn, output>> \notin conns
            /\ Cardinality({bypass, subGraphIn, output}) = 3

C2_Witness ==
    /\ lastOp.name = "constructor"
    /\ phase = "ok"
    /\ lastOp.args[2].kind = "object"
    /\ lastOp.args[2].active = "true"
    /\ active = "true"

\* C3: in every state of a constructed node the target of the bypass gain is
\* 1 if active else 0 and the target of the sub-graph-input gain is 0 if
\* active else 1: the targets sum to 1.
C3_ComplementaryTargets ==
    phase = "ok" =>
        /\ gain[bypass].target = (IF Truthy(active) THEN One ELSE 0)
        /\ gain[subGraphIn].target = (IF Truthy(active) THEN 0 ELSE One)
        /\ gain[bypass].target + gain[subGraphIn].target = One

C3_Witness ==
    /\ phase = "ok"
    /\ lastOp.name = "setActive"
    /\ ~lastOp.preSettled
    /\ nAssign = 2
    /\ Truthy(lastOp.preActive) # Truthy(active)

\* C4: reading active returns a boolean, equal to the truthiness of the value
\* most recently supplied.
C4_ActiveIsBoolean ==
    phase = "ok" =>
        /\ GetActive \in {"true", "false"}
        /\ lastOp.name = "setActive" =>
               GetActive = (IF Truthy(lastOp.args[1]) THEN "true" ELSE "false")

\* C5: with the harness in place and active never assigned, every output
\* sample is 0.5 (the sub graph's output) when active is false and 1 (the
\* input) when active is true, the sub graph then emitting nothing.
C5_StaticRouting ==
    (Wired /\ nAssign = 0) =>
        /\ \A i \in 1..Len(samples) :
               samples[i] = (IF active = "true" THEN One ELSE Half)
        /\ active = "true" =>
               \A t \in 0..currentTime : Signal("subGraph", gain, conns, t) = 0

C5_Witness ==
    /\ Wired
    /\ nAssign = 0
    /\ active = "false"
    /\ Len(samples) >= MaxTime
    /\ samples[Len(samples)] = Half

\* The only assignment so far switched a settled inactive node to active
ToggledOn ==
    /\ Wired
    /\ nAssign = 1
    /\ Truthy(active)
    /\ gain[bypass].tc # 0
    /\ gain[bypass].base = 0

\* C6: after active is flipped from false to true at frame T0, every sample
\* up to T0 is 0.5, and the samples after T0 never decrease, stay above 0.5
\* and never exceed 1.
C6_ToggleMonotone ==
    ToggledOn =>
        LET T0 == gain[bypass].start
        IN  \A i \in 1..Len(samples) :
                LET frame == i - 1
                IN  /\ frame <= T0 => samples[i] = Half
                    /\ frame > T0 =>
                           /\ samples[i] > Half
                           /\ samples[i] <= One
                           /\ samples[i] >= samples[i - 1]

C6_Witness ==
    /\ ToggledOn
    /\ gain[bypass].start >= 1
    /\ Len(samples) >= gain[bypass].start + 3
    /\ samples[Len(samples)] > samples[Len(samples) - 1]

\* Frames after which any ramp has reached its target
Horizon == ScaleBits + 2

\* C7: assigning to active the value it has, once both gains are settled,
\* raises nothing and leaves active, both targets, both gain values and the
\* output signal from then on as they were; assigning the same value twice
\* in a row leaves the gains as the first assignment left them.
C7_Idempotent ==
    [][ (lastOp'.name = "setActive" /\ lastOp'.args[1] = active) =>
            /\ Settled =>
                   /\ lastOp'.error = "none"
                   /\ active' = active
                   /\ gain'[bypass].target = gain[bypass].target
                   /\ gain'[subGraphIn].target = gain[subGraphIn].target
                   /\ \A d \in 0..Horizon :
                          /\ ValueAt(gain'[bypass], currentTime' + d)
                                 = ValueAt(gain[bypass], currentTime + d)
                          /\ ValueAt(gain'[subGraphIn], currentTime' + d)
                                 = ValueAt(gain[subGraphIn], currentTime + d)
                          /\ OutSample(gain', conns', currentTime' + d)
                                 = OutSample(gain, conns, currentTime + d)
            /\ lastOp.name = "setActive" =>
                   /\ gain' = gain
                   /\ requests' = requests
                   /\ active' = active
      ]_vars

C7_Witness ==
    /\ phase = "ok"
    /\ lastOp.name = "setActive"
    /\ lastOp.preSettled
    /\ lastOp.args[1] = lastOp.preActive
    /\ nAssign = 2
    /\ currentTime >= ScaleBits

\* C8: every assignment to active issues exactly two scheduling requests, the
\* bypass gain's first and the sub-graph-input gain's second, both starting
\* at the current time with time constant 0.01; no other operation issues any.
C8_TwoRequests ==
    /\ lastOp.name = "setActive" =>
           /\ Len(requests) = 2
           /\ requests[1].param = bypass
           /\ requests[2].param = subGraphIn
           /\ requests[1].startTime = currentTime
           /\ requests[2].startTime = requests[1].startTime
           /\ requests[1].timeConstant = 10
           /\ requests[2].timeConstant = 10
           /\ gain[bypass].start = gain[subGraphIn].start
           /\ gain[bypass].tc = gain[subGraphIn].tc
    /\ lastOp.name # "setActive" => requests = << >>

C8_Witness ==
    /\ lastOp.name = "setActive"
    /\ nAssign = 2
    /\ currentTime >= 2
    /\ Len(requests) = 2

\* Both gains rest at the targets the current value of active determines
SettledAtLast ==
    /\ Settled
    /\ GainValue(bypass) = (IF Truthy(active) THEN One ELSE 0)
    /\ GainValue(subGraphIn) = (IF Truthy(active) THEN 0 ELSE One)

Distance(n, g, t) ==
    LET d == ValueAt(g[n], t) - g[n].target
    IN  IF d >= 0 THEN d ELSE -d

\* C9: an assignment to active leaves each gain at the value it has, the new
\* ramp starting from there; rendering never takes a gain away from its
\* target; and once no further assignment is made both gains settle at the
\* targets of the last value assigned.
C9_LastAssignmentWins ==
    /\ [][ lastOp'.name = "setActive" =>
               /\ ValueAt(gain'[bypass], currentTime') = ValueAt(gain[bypass], currentTime)
               /\ ValueAt(gain'[subGraphIn], currentTime')
                      = ValueAt(gain[subGraphIn], currentTime)
         ]_vars
    /\ [][ lastOp'.name = "render" =>
               /\ Distance(bypass, gain', currentTime') <= Distance(bypass, gain, currentTime)
               /\ Distance(subGraphIn, gain', currentTime')
                      <= Distance(subGraphIn, gain, currentTime)
         ]_vars
    /\ \A k \in 0..MaxAssign :
           (phase = "ok" /\ nAssign = k) ~> (nAssign > k \/ SettledAtLast)

C9_Witness ==
    /\ phase = "ok"
    /\ nAssign >= 2
    /\ gain[bypass].base \notin {0, One}
    /\ currentTime > gain[bypass].start
    /\ SettledAtLast

\* C10: once constructed, no operation replaces a gain stage or changes
\* context, subGraphInput or subGraphOutput; the output gain stays 1 and the
\* internal connections stay; an assignment to active changes only the
\* automation of the two switched gains, and connect and disconnect change
\* only the outgoing connections of the output stage.
C10_Frame ==
    [][ phase = "ok" =>
            /\ phase' = "ok"
            /\ GetContext' = GetContext
            /\ GetSubGraphInput' = GetSubGraphInput
            /\ GetSubGraphOutput' = GetSubGraphOutput
            /\ bypass' = bypass
            /\ {bypass, subGraphIn, output} \subseteq nodes'
            /\ ValueAt(gain'[output], currentTime') = One
            /\ {<<"input", bypass>>, <<"input", subGraphIn>>, <<bypass, output>>}
                   \subseteq conns'
            /\ lastOp'.name = "setActive" =>
                   /\ nodes' = nodes
                   /\ conns' = conns
                   /\ \A n \in DOMAIN gain \ {bypass, subGraphIn} : gain'[n] = gain[n]
                   /\ DOMAIN gain' = DOMAIN gain
            /\ lastOp'.name \in {"connect", "disconnect"} =>
                   /\ nodes' = nodes
                   /\ gain' = gain
                   /\ active' = active
                   /\ {e \in conns' : e[1] # output} = {e \in conns : e[1] # output}
      ]_vars

C10_Witness ==
    /\ phase = "ok"
    /\ lastOp.name = "disconnect"
    /\ lastOp.args[1] = "all"
    /\ lastOp.error = "none"
    /\ "subGraph" \in nodes
    /\ nAssign >= 1
    /\ <<output, "destination">> \notin conns

============================================================================
